---- MODULE Spec2Model ----
(***************************************************************************)
(* Model of the Ninja-Slicer maintenance scripts: fix_eslint_issues.py,    *)
(* fix_imports.py, replace_console_logs.py, fix_villager.py and            *)
(* fix_spawnsystem.py.                                                     *)
(*                                                                         *)
(* A file content is a sequence of tokens.  A token is a maximal piece of  *)
(* text none of the scripts' patterns can split (an identifier, a quoted   *)
(* module path, one punctuation sign, one blank " ", one line break "\n"). *)
(* The string operations of the scripts (substring test, str.replace,      *)
(* split/join on line breaks, strip, the two regular expressions) are      *)
(* computed token by token as Python computes them character by character. *)
(***************************************************************************)
EXTENDS Naturals, Sequences, FiniteSets

VARIABLES
  script,    \* which script this run of the interpreter executes
  pc,        \* position in the script
  idx,       \* position in the script's file list (the for loops)
  fs,        \* the file system: path -> content
  present,   \* the paths that exist (os.path.exists / open succeeds)
  content,   \* the script's variable `content`
  orig,      \* history: what the last read returned
  path,      \* history: the file the last step worked on
  wrote,     \* history: the last step opened that file for writing
  writes,    \* history: path -> number of writes in this run
  out,       \* what the run printed so far
  run,       \* number of the run (the script can be started again)
  prev       \* history: the file system when the previous run ended

vars == <<script, pc, idx, fs, present, content, orig, path, wrote, writes, out, run, prev>>

(***************************** bounds **************************************)
MaxRuns == 2
MaxPlainLines == 2
MaxCaseLines == 3
MaxImportLines == 2
MaxThemeLines == 2
MaxSceneLines == 2
MaxChunks == 2

(************************ Python string operations *************************)
NL == "\n"
SP == " "

IsWs(t) == t \in {SP, NL}

Range(s) == {s[i] : i \in 1..Len(s)}

Slice(s, a, b) == IF a > b THEN <<>> ELSE SubSeq(s, a, b)

StartsAt(s, pat, i) ==
  /\ i + Len(pat) - 1 <= Len(s)
  /\ \A k \in 1..Len(pat) : s[i + k - 1] = pat[k]

\* Python: pat in s
Contains(s, pat) == \E i \in 1..(Len(s) + 1) : StartsAt(s, pat, i)

RECURSIVE ReplaceFrom(_, _, _, _)
ReplaceFrom(s, old, new, i) ==
  IF i > Len(s) THEN <<>>
  ELSE IF StartsAt(s, old, i)
       THEN new \o ReplaceFrom(s, old, new, i + Len(old))
       ELSE <<s[i]>> \o ReplaceFrom(s, old, new, i + 1)

\* s.replace(old, new, 1): what a replacement of the first occurrence alone gives
ReplaceFirst(s, old, new) ==
  IF \E i \in 1..Len(s) : StartsAt(s, old, i)
  THEN LET i == CHOOSE j \in 1..Len(s) :
                  StartsAt(s, old, j) /\ \A k \in 1..(j - 1) : ~StartsAt(s, old, k)
       IN Slice(s, 1, i - 1) \o new \o Slice(s, i + Len(old), Len(s))
  ELSE s

\* Python: s.replace(old, new), every occurrence, left to right (old is not empty)
Replace(s, old, new) == ReplaceFrom(s, old, new, 1)

RECURSIVE SplitAcc(_, _, _)
SplitAcc(s, cur, acc) ==
  IF s = <<>> THEN Append(acc, cur)
  ELSE IF Head(s) = NL THEN SplitAcc(Tail(s), <<>>, Append(acc, cur))
       ELSE SplitAcc(Tail(s), Append(cur, Head(s)), acc)

\* Python: s.split('\n')
SplitLines(s) == SplitAcc(s, <<>>, <<>>)

RECURSIVE JoinWith(_, _)
JoinWith(parts, sep) ==
  IF parts = <<>> THEN <<>>
  ELSE IF Len(parts) = 1 THEN parts[1]
       ELSE parts[1] \o sep \o JoinWith(Tail(parts), sep)

\* Python: '\n'.join(lines)
JoinLines(lines) == JoinWith(lines, <<NL>>)

RECURSIVE LStrip(_)
LStrip(s) == IF s # <<>> /\ IsWs(Head(s)) THEN LStrip(Tail(s)) ELSE s

RECURSIVE RStrip(_)
RStrip(s) == IF s # <<>> /\ IsWs(s[Len(s)]) THEN RStrip(Slice(s, 1, Len(s) - 1)) ELSE s

\* Python: s.strip()
Strip(s) == RStrip(LStrip(s))

\* the end (exclusive) of the run of white space that starts at i: regex \s*
RECURSIVE SkipWs(_, _)
SkipWs(s, i) == IF i <= Len(s) /\ IsWs(s[i]) THEN SkipWs(s, i + 1) ELSE i

\* the first index >= i that holds token t, 0 when there is none
RECURSIVE Find(_, _, _)
Find(s, t, i) == IF i > Len(s) THEN 0 ELSE IF s[i] = t THEN i ELSE Find(s, t, i + 1)

(********************* fix_eslint_issues.py: the data **********************)
types_ts_path == "src/config/types.ts"
objectpool_path == "src/utils/ObjectPool.ts"
dataloader_path == "src/utils/DataLoader.ts"
responsive_path == "src/utils/ResponsiveManager.ts"
debuglogger_path == "src/utils/DebugLogger.ts"
helpers_path == "src/utils/helpers.ts"

\* the guards of Fix 1, 2, 3 and 6 and the lines they put on top
Guard1 == <<"eslint-disable">>
Header1 == <<"/*", SP, "eslint-disable", SP, "@typescript-eslint/no-unused-vars", SP, "*/", NL>>
Guard2 == <<"import", SP, "Phaser">>
Header2 == <<"import", SP, "Phaser", SP, "from", SP, "'phaser';", NL>>
Guard3 == <<"/*", SP, "eslint-disable">>
Header3 == <<"/*", SP, "eslint-disable", SP, "no-undef", SP, "*/", NL>>
Guard6 == <<"eslint-disable", SP, "no-console">>
Header6 == <<"/*", SP, "eslint-disable", SP, "no-console", SP, "*/", NL>>

\* Fix 7: three of the twenty entries of files_to_fix, with one, two and three names
files_to_fix == <<
  <<"src/scenes/PauseScene.ts", <<"COLORS">> >>,
  <<"src/ui/Card.ts", <<"COLORS", "UI_ANIMATION_DURATION">> >>,
  <<"src/ui/Button.ts", <<"COLORS", "UI_ANIMATION_DURATION", "getButtonStyle">> >> >>

(************** Fix 1, 2, 3, 6: the guarded header insertion ***************)
GuardedHeader(c, guard, header) == IF ~Contains(c, guard) THEN header \o c ELSE c

(******************* Fix 4: the duplicate case labels **********************)
\* re.search(r"case\s+'([^']+)':", line) anchored at i: the key, <<>> when no match
CaseKeyAt(line, i) ==
  LET q1 == SkipWs(line, i + 1)
      q2 == Find(line, "'", q1 + 1)
  IN IF /\ line[i] = "case"
        /\ q1 > i + 1
        /\ q1 <= Len(line)
        /\ line[q1] = "'"
        /\ q2 > q1 + 1
        /\ q2 + 1 <= Len(line)
        /\ line[q2 + 1] = ":"
     THEN Slice(line, q1 + 1, q2 - 1)
     ELSE <<>>

\* the key of the leftmost match in the line, <<>> when the line has none
CaseKey(line) ==
  LET hits == {i \in 1..Len(line) : CaseKeyAt(line, i) # <<>>}
  IN IF hits = {} THEN <<>>
     ELSE CaseKeyAt(line, CHOOSE i \in hits : \A j \in hits : i <= j)

\* a loop that drops every label line after the first one, whatever its key
RECURSIVE DedupLoopAnyKey(_, _, _)
DedupLoopAnyKey(lines, seen_cases, new_lines) ==
  IF lines = <<>> THEN new_lines
  ELSE IF CaseKey(Head(lines)) # <<>>
       THEN IF seen_cases # {}
            THEN DedupLoopAnyKey(Tail(lines), seen_cases, new_lines)
            ELSE DedupLoopAnyKey(Tail(lines), {CaseKey(Head(lines))}, Append(new_lines, Head(lines)))
       ELSE DedupLoopAnyKey(Tail(lines), seen_cases, Append(new_lines, Head(lines)))

RECURSIVE DedupLoop(_, _, _)
DedupLoop(lines, seen_cases, new_lines) ==
  IF lines = <<>> THEN new_lines
  ELSE LET line == Head(lines)
           case_value == CaseKey(line)
       IN IF case_value # <<>>
          THEN IF case_value \in seen_cases
               THEN DedupLoop(Tail(lines), seen_cases, new_lines)
               ELSE DedupLoop(Tail(lines), seen_cases \cup {case_value}, Append(new_lines, line))
          ELSE DedupLoop(Tail(lines), seen_cases, Append(new_lines, line))

DedupCases(c) == JoinLines(DedupLoop(SplitLines(c), {}, <<>>))

(*********************** Fix 5: the literal replace ************************)
ReplaceConsoleError(c) == Replace(c, <<"console.error">>, <<"debugError">>)

(******************* Fix 7: the unused import removal ***********************)
NoMatch == [ok |-> FALSE, from |-> 0, gs |-> 0, ge |-> 0, to |-> 0]

\* pattern = r'import\s+\{([^}]+)\}\s+from' anchored at i
PatternAt(s, i) ==
  LET a == SkipWs(s, i + 1)
      close == Find(s, "}", a + 1)
      b == SkipWs(s, close + 1)
  IN IF /\ s[i] = "import"
        /\ a > i + 1
        /\ a <= Len(s)
        /\ s[a] = "{"
        /\ close > a + 1
        /\ b > close + 1
        /\ b <= Len(s)
        /\ s[b] = "from"
     THEN [ok |-> TRUE, from |-> i, gs |-> a + 1, ge |-> close - 1, to |-> b]
     ELSE NoMatch

\* re.search(pattern, content): the leftmost match
PatternSearch(s) ==
  LET hits == {i \in 1..Len(s) : PatternAt(s, i).ok}
  IN IF hits = {} THEN NoMatch
     ELSE PatternAt(s, CHOOSE i \in hits : \A j \in hits : i <= j)

\* pattern + r'\s+[^\n]+\n' anchored at i: \s+ takes as much white space as leaves
\* a non-empty run of non-line-break text and then a line break
LinePatternAt(s, i) ==
  LET m == PatternAt(s, i)
      w == SkipWs(s, m.to + 1)
      starts == {st \in (m.to + 2)..w :
                   st <= Len(s) /\ s[st] # NL /\ Find(s, NL, st) # 0}
  IN IF m.ok /\ starts # {}
     THEN [ok |-> TRUE, from |-> i, gs |-> m.gs, ge |-> m.ge,
           to |-> Find(s, NL, CHOOSE st \in starts : \A x \in starts : x <= st)]
     ELSE NoMatch

LinePatternSearch(s) ==
  LET hits == {i \in 1..Len(s) : LinePatternAt(s, i).ok}
  IN IF hits = {} THEN NoMatch
     ELSE LinePatternAt(s, CHOOSE i \in hits : \A j \in hits : i <= j)

RECURSIVE SplitCommaAcc(_, _, _)
SplitCommaAcc(s, cur, acc) ==
  IF s = <<>> THEN Append(acc, cur)
  ELSE IF Head(s) = "," THEN SplitCommaAcc(Tail(s), <<>>, Append(acc, cur))
       ELSE SplitCommaAcc(Tail(s), Append(cur, Head(s)), acc)

\* [i.strip() for i in imports_str.split(',')]
ImportEntries(imports_str) ==
  LET parts == SplitCommaAcc(imports_str, <<>>, <<>>)
  IN [k \in 1..Len(parts) |-> Strip(parts[k])]

\* [i for i in imports if i != imp]
WithoutImport(imports, imp) == SelectSeq(imports, LAMBDA e : e # <<imp>>)

\* a join that leaves the blank out: ','.join(imports)
JoinImportsNoBlank(imports) == JoinWith(imports, <<",">>)

\* ', '.join(imports)
JoinImports(imports) == JoinWith(imports, <<",", SP>>)

\* f'import {{ {new_imports_str} }} from'
ImportHead(new_imports_str) == <<"import", SP, "{", SP>> \o new_imports_str \o <<SP, "}", SP, "from">>

\* one pass of the loop body for the name imp (lines 132-144)
RemoveImport(c, imp) ==
  LET match == PatternSearch(c)
  IN IF match.ok
     THEN LET imports == WithoutImport(ImportEntries(Slice(c, match.gs, match.ge)), imp)
          IN IF imports # <<>>
             THEN Slice(c, 1, match.from - 1) \o ImportHead(JoinImports(imports))
                    \o Slice(c, match.to + 1, Len(c))
             ELSE LET del == LinePatternSearch(c)
                  IN IF del.ok
                     THEN Slice(c, 1, del.from - 1) \o Slice(c, del.to + 1, Len(c))
                     ELSE c
     ELSE c

\* for imp in unused_imports: ...
RECURSIVE RemoveImports(_, _)
RemoveImports(c, unused_imports) ==
  IF unused_imports = <<>> THEN c
  ELSE RemoveImports(RemoveImport(c, Head(unused_imports)), Tail(unused_imports))

(************************** fix_imports.py: the data ***********************)
theme_path == "src/utils/ThemeUtils.ts"

\* the guard of line 9
PhaserImport == <<"import", SP, "Phaser", SP, "from", SP, "'phaser';">>

\* the text line 11 looks for
TypesImport ==
  <<"import", SP, "{", SP, "ThemeConfig", ",", SP, "GradientPalette", ",", SP, "ShadowConfig",
    SP, "}", SP, "from", SP, "'../config/types';">>

\* a replacement that puts the new line after the one it looks for
InsertPhaserImportAfter(c) == Replace(c, TypesImport, TypesImport \o <<NL>> \o PhaserImport)

\* content.replace(line 11, line 12)
InsertPhaserImport(c) == Replace(c, TypesImport, PhaserImport \o <<NL>> \o TypesImport)

(********************* replace_console_logs.py: the data *******************)
ZombieWarn == "'Zombie half textures not found, skipping split effect'"
VampireWarn == "'Vampire half textures not found, skipping split effect'"
VampireBatWarn == "'Vampire bat texture not found, skipping bat burst effect'"

\* three of the nineteen entries of files_to_update: (pattern, replacement) pairs
files_to_update == <<
  <<"src/utils/ObjectPool.ts",
    << <<<<"console.warn", "(", "'[ObjectPool] Pool exhausted, max size reached'", ")">>,
         <<"debugWarn", "(", "'[ObjectPool] Pool exhausted, max size reached'", ")">> >>,
       <<<<"console.warn", "(", "'[ObjectPool] Attempting to release object not from this pool'", ")">>,
         <<"debugWarn", "(", "'[ObjectPool] Attempting to release object not from this pool'", ")">> >> >> >>,
  <<"src/entities/Vampire.ts",
    << <<<<"console.warn", "(", VampireWarn, ")">>, <<"debugWarn", "(", VampireWarn, ")">> >>,
       <<<<"console.warn", "(", VampireBatWarn, ")">>, <<"debugWarn", "(", VampireBatWarn, ")">> >> >> >>,
  <<"src/entities/Zombie.ts",
    << <<<<"console.warn", "(", ZombieWarn, ")">>, <<"debugWarn", "(", ZombieWarn, ")">> >> >> >> >>

import_statement ==
  <<"import", SP, "{", SP, "debugLog", ",", SP, "debugWarn", ",", SP, "debugError", SP, "}",
    SP, "from", SP, "'@utils/DebugLogger';", NL, NL>>

\* the guard of line 149
DebugGuard == <<"import", SP, "{", SP, "debugLog">>

\* line.strip().startswith('import ')
IsImportLine(line) == StartsAt(Strip(line), <<"import", SP>>, 1)

\* the loop of lines 155-163
RECURSIVE InsertLoop(_, _, _)
InsertLoop(lines, import_inserted, new_lines) ==
  IF lines = <<>> THEN new_lines
  ELSE LET line == Head(lines)
       IN IF import_inserted
          THEN InsertLoop(Tail(lines), import_inserted, Append(new_lines, line))
          ELSE IF IsImportLine(line)
               THEN InsertLoop(Tail(lines), TRUE, Append(Append(new_lines, line), import_statement))
               ELSE InsertLoop(Tail(lines), import_inserted, Append(new_lines, line))

\* lines 151-165
InsertDebugImport(c) == JoinLines(InsertLoop(SplitLines(c), FALSE, <<>>))

\* for pattern, replacement in replacements: content = content.replace(...)
RECURSIVE ApplyReplacements(_, _)
ApplyReplacements(c, replacements) ==
  IF replacements = <<>> THEN c
  ELSE ApplyReplacements(Replace(c, Head(replacements)[1], Head(replacements)[2]),
                         Tail(replacements))

(************************* fix_villager.py: the data ***********************)
villager_path == "src/entities/Villager.ts"

VillagerHead == <<"    this.createAnimations(texture);", NL, "  }", NL, NL>>

VillagerTail == <<"  /**", NL, "   * Create villager animations", NL, "   */">>

SpawnMethod ==
  <<"  /**", NL, "   * Spawn the villager with velocity", NL, "   */", NL,
    "  spawn(x: number, y: number, velocityX: number, velocityY: number): void {", NL,
    "    this.setPosition(x, y);", NL,
    "    this.setVelocity(velocityX, velocityY);", NL,
    "  }", NL, NL>>

old_text == VillagerHead \o VillagerTail

new_text == VillagerHead \o SpawnMethod \o VillagerTail

\* content.replace(old_text, new_text)
InsertSpawnMethod(c) == Replace(c, old_text, new_text)

(************************ fix_spawnsystem.py: the data *********************)
spawnsystem_path == "src/systems/SpawnSystem.ts"

SpawnPatternMethod ==
  <<"  setSpawnPattern(pattern: SpawnPattern): void {", NL,
    "    this.spawnPattern = pattern;", NL,
    "  }", NL, NL>>

SpawnEntityDoc == <<"  /**", NL, "   * Spawn a new entity (monster or villager)", NL, "   */">>

\* the inserted method; the lines of its signature and of its body, which no
\* pattern of the script can split, are one token each
DifficultyMethod ==
  <<"  /**", NL, "   * Set difficulty modifiers for endless mode", NL, "   */", NL,
    "  setDifficultyModifiers(modifiers: {\n    spawnRateMultiplier: number;\n    speedMultiplier: number;\n    villagerChance: number;\n  }): void {", NL,
    "    // Apply spawn rate multiplier\n    this.spawnInterval = Math.max(\n      this.minSpawnInterval,\n      this.spawnInterval / modifiers.spawnRateMultiplier\n    );", NL, NL,
    "    // Store villager chance for spawnEntity\n    (this as any).difficultyVillagerChance = modifiers.villagerChance;", NL,
    "  }", NL, NL>>

old_method == SpawnPatternMethod \o SpawnEntityDoc

new_method == SpawnPatternMethod \o DifficultyMethod \o SpawnEntityDoc

SpawnEntityHead ==
  <<"  private spawnEntity(): void {", NL,
    "    // Calculate villager spawn chance (use level config if available)", NL,
    "    const gameTimeSeconds = this.elapsedTime / 1000;", NL,
    "    let villagerChance = Math.min(0.05 + (gameTimeSeconds / 120), 0.15);", NL>>

\* the line of four blanks and the test that follows it
LevelConfigCheck ==
  <<"    ", NL,
    "    // Use level-specific villager chance if in campaign mode", NL,
    "    if (this.levelConfig) {", NL,
    "      villagerChance = this.levelConfig.villagerChance;", NL,
    "    }">>

DifficultyCheck ==
  <<NL,
    "    // Use difficulty modifier if set", NL,
    "    if ((this as any).difficultyVillagerChance !== undefined) {", NL,
    "      villagerChance = (this as any).difficultyVillagerChance;", NL,
    "    }", NL>>

old_spawn_entity == SpawnEntityHead \o LevelConfigCheck

new_spawn_entity == SpawnEntityHead \o DifficultyCheck \o LevelConfigCheck

\* a replacement whose new text still holds the text it looks for
InsertDifficultyMethodAgain(c) ==
  Replace(c, old_method, old_method \o <<NL>> \o DifficultyMethod \o SpawnEntityDoc)

\* content.replace(old_method, new_method)
InsertDifficultyMethod(c) == Replace(c, old_method, new_method)

\* content.replace(old_spawn_entity, new_spawn_entity)
InsertDifficultyCheck(c) == Replace(c, old_spawn_entity, new_spawn_entity)

\* lines 39 and 67, one after the other
FixSpawnContent(c) == InsertDifficultyCheck(InsertDifficultyMethod(c))

(************************** the files on disk ******************************)
\* every text of 1..n lines drawn from the line set L, joined by line breaks
Texts(L, n) == {JoinLines(ls) : ls \in UNION {[1..k -> L] : k \in 1..n}}

DefaultText == <<"export", SP, "{};", NL>>

PlainLine == <<"export", SP, "{};">>

HeaderLines == {
  PlainLine,
  <<"/*", SP, "eslint-disable", SP, "no-undef", SP, "*/">>,
  <<"/*", SP, "eslint-disable", SP, "no-console", SP, "*/">>,
  <<"//", SP, "eslint-disable", SP, "no-console">>,
  <<"import", SP, "Phaser", SP, "from", SP, "'phaser';">> }

CaseLines == {
  <<"case", SP, "'", "swipe_left", "'", ":">>,
  <<"case", SP, "'", "swipe_up", "'", ":">>,
  <<SP, SP, "doX();">>,
  <<"case", SP, SP, "'", "swipe_left", "'", ":", SP, "doY();">>,
  <<"case", SP, "'", "swipe_left", "'", SP, ":">>,
  <<"case", SP, "'", "swipe_up", "'", ":", SP, "case", SP, "'", "swipe_left", "'", ":">> }

LoggerLines == {
  PlainLine,
  <<"console.error", "(", "e", ")", ";">>,
  <<"debugError", "(", "console.error", ")", ";">> }

ImportLines == {
  <<"import", SP, "{", SP, "COLORS", SP, "}", SP, "from", SP, "'m';">>,
  <<"import", SP, "{", SP, "COLORS", ",", SP, "Scene", SP, "}", SP, "from", SP, "'m';">>,
  <<"import", SP, "{", SP, "Scene", ",", SP, "getButtonStyle", SP, "}", SP, "from", SP, "'n';">>,
  <<"import", SP, "{", "Scene", ",", "COLORS", "}", SP, "from", SP, "'m';">>,
  <<"import", SP, "{", SP, "COLORS", ",", SP, "}", SP, "from", SP, "'m';">>,
  <<"import", SP, "{", SP, "UI_ANIMATION_DURATION", ",", SP, "COLORS", SP, "}", SP, "from", SP, "'m';">>,
  <<"import", SP, "{", NL, SP, "COLORS", ",", NL, SP, "Scene", ",", NL, "}", SP, "from", SP, "'m';">>,
  <<"import", SP, SP, "{", "Scene", "}", SP, "from", SP, "'n';">>,
  <<"const", SP, "c", SP, "=", SP, "COLORS", ";">>,
  <<>> }

ThemeLines == {
  TypesImport,
  PhaserImport,
  <<"import", SP, "Phaser", SP, "from", SP, "\"phaser\";">>,
  PlainLine,
  <<>> }

SceneLines == {
  PhaserImport,
  <<SP, SP, "import", SP, "{", SP, "Monster", SP, "}", SP, "from", SP, "'./Monster';">>,
  Slice(import_statement, 1, Len(import_statement) - 2),
  <<"console.warn", "(", VampireWarn, ")", ";">>,
  <<"console.warn", "(", ZombieWarn, ")", ";">>,
  PlainLine,
  <<>> }

VillagerChunks == {
  old_text,
  new_text,
  Slice(VillagerHead, 1, 3),
  Slice(VillagerHead, 1, 4),
  VillagerTail,
  PlainLine }

SpawnChunks == {
  old_method,
  new_method,
  old_spawn_entity,
  new_spawn_entity,
  Slice(SpawnPatternMethod, 1, 6),
  SpawnEntityDoc,
  SpawnEntityHead \o <<"    ">>,
  Slice(LevelConfigCheck, 3, Len(LevelConfigCheck)),
  PlainLine }

EslintHeaderPaths == {types_ts_path, objectpool_path, dataloader_path, helpers_path}
EslintImportPaths == {files_to_fix[i][1] : i \in 1..Len(files_to_fix)}
EslintPaths ==
  EslintHeaderPaths \cup {responsive_path, debuglogger_path} \cup EslintImportPaths

ConsolePaths == {files_to_update[i][1] : i \in 1..Len(files_to_update)}

PathsOf(sc) ==
  CASE sc = "fix_eslint_issues" -> EslintPaths
    [] sc = "fix_imports" -> {theme_path}
    [] sc = "replace_console_logs" -> ConsolePaths
    [] sc = "fix_villager" -> {villager_path}
    [] sc = "fix_spawnsystem" -> {spawnsystem_path}

InputsOf(p) ==
  CASE p \in EslintHeaderPaths -> Texts(HeaderLines, MaxPlainLines)
    [] p = responsive_path -> Texts(CaseLines, MaxCaseLines)
    [] p = debuglogger_path -> Texts(LoggerLines, MaxPlainLines)
    [] p \in EslintImportPaths -> Texts(ImportLines, MaxImportLines)
    [] p = theme_path -> Texts(ThemeLines, MaxThemeLines)
    [] p \in ConsolePaths -> Texts(SceneLines, MaxSceneLines)
    [] p = villager_path -> Texts(VillagerChunks, MaxChunks)
    [] p = spawnsystem_path -> Texts(SpawnChunks, MaxChunks)

StartOf(sc) ==
  CASE sc = "fix_eslint_issues" -> "fix1"
    [] sc = "replace_console_logs" -> "loop"
    [] OTHER -> "main"

Scripts ==
  {"fix_eslint_issues", "fix_imports", "replace_console_logs", "fix_villager", "fix_spawnsystem"}

\* one file of the script holds any of its inputs, or is missing; the others hold
\* DefaultText
Init ==
  /\ script \in Scripts
  /\ \E f \in PathsOf(script) :
       \/ /\ present = PathsOf(script)
          /\ \E c \in InputsOf(f) :
               fs = [p \in PathsOf(script) |-> IF p = f THEN c ELSE DefaultText]
       \/ /\ present = PathsOf(script) \ {f}
          /\ fs = [p \in PathsOf(script) |-> IF p = f THEN <<>> ELSE DefaultText]
  /\ pc = StartOf(script)
  /\ idx = 1
  /\ content = <<>>
  /\ orig = <<>>
  /\ path = ""
  /\ wrote = FALSE
  /\ writes = [p \in PathsOf(script) |-> 0]
  /\ out = <<>>
  /\ run = 1
  /\ prev = fs

(********************* fix_eslint_issues.py: the steps *********************)
\* with open(p) ... read; transform; with open(p, 'w') ... write; print('Fixed: p')
\* A missing file raises FileNotFoundError, which nothing catches.
FixFile(here, next, p, new_content) ==
  /\ script = "fix_eslint_issues"
  /\ pc = here
  /\ path' = p
  /\ IF p \in present
     THEN /\ orig' = fs[p]
          /\ content' = new_content
          /\ fs' = [fs EXCEPT ![p] = new_content]
          /\ writes' = [writes EXCEPT ![p] = @ + 1]
          /\ wrote' = TRUE
          /\ out' = Append(out, <<"Fixed", p>>)
          /\ pc' = next
     ELSE /\ pc' = "crashed"
          /\ wrote' = FALSE
          /\ UNCHANGED <<orig, content, fs, writes, out>>
  /\ UNCHANGED <<script, idx, present, run, prev>>

Fix1 == FixFile("fix1", "fix2", types_ts_path, GuardedHeader(fs[types_ts_path], Guard1, Header1))

Fix2 == FixFile("fix2", "fix3", objectpool_path, GuardedHeader(fs[objectpool_path], Guard2, Header2))

Fix3 == FixFile("fix3", "fix4", dataloader_path, GuardedHeader(fs[dataloader_path], Guard3, Header3))

Fix4 == FixFile("fix4", "fix5", responsive_path, DedupCases(fs[responsive_path]))

Fix5 == FixFile("fix5", "fix6", debuglogger_path, ReplaceConsoleError(fs[debuglogger_path]))

Fix6 == FixFile("fix6", "fix7", helpers_path, GuardedHeader(fs[helpers_path], Guard6, Header6))

\* one turn of `for filepath, unused_imports in files_to_fix`
Fix7 ==
  /\ script = "fix_eslint_issues"
  /\ pc = "fix7"
  /\ idx <= Len(files_to_fix)
  /\ LET filepath == files_to_fix[idx][1]
         unused_imports == files_to_fix[idx][2]
     IN /\ path' = filepath
        /\ IF filepath \notin present
           THEN /\ wrote' = FALSE
                /\ UNCHANGED <<orig, content, fs, writes, out>>
           ELSE /\ orig' = fs[filepath]
                /\ content' = RemoveImports(fs[filepath], unused_imports)
                /\ fs' = [fs EXCEPT ![filepath] = RemoveImports(fs[filepath], unused_imports)]
                /\ writes' = [writes EXCEPT ![filepath] = @ + 1]
                /\ wrote' = TRUE
                /\ out' = Append(out, <<"Fixed imports in", filepath>>)
  /\ idx' = idx + 1
  /\ UNCHANGED <<script, pc, present, run, prev>>

\* print('All ESLint fixes applied!')
EslintEnd ==
  /\ script = "fix_eslint_issues"
  /\ pc = "fix7"
  /\ idx > Len(files_to_fix)
  /\ pc' = "done"
  /\ out' = Append(out, <<"All ESLint fixes applied!">>)
  /\ wrote' = FALSE
  /\ UNCHANGED <<script, idx, fs, present, content, orig, path, writes, run, prev>>

(************************ fix_imports.py: the script ***********************)
FixImports ==
  /\ script = "fix_imports"
  /\ pc = "main"
  /\ path' = theme_path
  /\ IF theme_path \notin present
     THEN /\ pc' = "crashed"
          /\ wrote' = FALSE
          /\ UNCHANGED <<orig, content, fs, writes, out>>
     ELSE /\ pc' = "done"
          /\ orig' = fs[theme_path]
          /\ IF ~Contains(fs[theme_path], PhaserImport)
             THEN /\ content' = InsertPhaserImport(fs[theme_path])
                  /\ fs' = [fs EXCEPT ![theme_path] = InsertPhaserImport(fs[theme_path])]
                  /\ writes' = [writes EXCEPT ![theme_path] = @ + 1]
                  /\ wrote' = TRUE
                  /\ out' = Append(out, <<"Updated", theme_path>>)
             ELSE /\ content' = fs[theme_path]
                  /\ wrote' = FALSE
                  /\ out' = Append(out, <<"Skipping (already has import)", theme_path>>)
                  /\ UNCHANGED <<fs, writes>>
  /\ UNCHANGED <<script, idx, present, run, prev>>

(******************* replace_console_logs.py: the steps ********************)
\* lines 140-165: the existence test, the read, the guard and the import insertion
ConsoleOpen ==
  /\ script = "replace_console_logs"
  /\ pc = "loop"
  /\ idx <= Len(files_to_update)
  /\ LET filepath == files_to_update[idx][1]
     IN /\ path' = filepath
        /\ wrote' = FALSE
        /\ IF filepath \notin present
           THEN /\ out' = Append(out, <<"Skipping (not found)", filepath>>)
                /\ idx' = idx + 1
                /\ UNCHANGED <<pc, orig, content>>
           ELSE /\ orig' = fs[filepath]
                /\ IF ~Contains(fs[filepath], DebugGuard)
                   THEN /\ content' = InsertDebugImport(fs[filepath])
                        /\ pc' = "replace"
                        /\ UNCHANGED <<out, idx>>
                   ELSE /\ content' = fs[filepath]
                        /\ out' = Append(out, <<"Skipping (already has import)", filepath>>)
                        /\ idx' = idx + 1
                        /\ UNCHANGED pc
  /\ UNCHANGED <<script, fs, present, writes, run, prev>>

\* lines 167-174: the replacements, the write and the report
ConsoleReplace ==
  /\ script = "replace_console_logs"
  /\ pc = "replace"
  /\ LET filepath == files_to_update[idx][1]
         replacements == files_to_update[idx][2]
     IN /\ content' = ApplyReplacements(content, replacements)
        /\ fs' = [fs EXCEPT ![filepath] = ApplyReplacements(content, replacements)]
        /\ writes' = [writes EXCEPT ![filepath] = @ + 1]
        /\ out' = Append(out, <<"Updated", filepath>>)
  /\ wrote' = TRUE
  /\ idx' = idx + 1
  /\ pc' = "loop"
  /\ UNCHANGED <<script, present, orig, path, run, prev>>

\* print('All console.log replacements completed')
ConsoleEnd ==
  /\ script = "replace_console_logs"
  /\ pc = "loop"
  /\ idx > Len(files_to_update)
  /\ pc' = "done"
  /\ out' = Append(out, <<"All console.log replacements completed">>)
  /\ wrote' = FALSE
  /\ UNCHANGED <<script, idx, fs, present, content, orig, path, writes, run, prev>>

(************************ fix_villager.py: the script **********************)
FixVillager ==
  /\ script = "fix_villager"
  /\ pc = "main"
  /\ path' = villager_path
  /\ IF villager_path \notin present
     THEN /\ pc' = "crashed"
          /\ wrote' = FALSE
          /\ UNCHANGED <<orig, content, fs, writes, out>>
     ELSE /\ pc' = "done"
          /\ orig' = fs[villager_path]
          /\ content' = InsertSpawnMethod(fs[villager_path])
          /\ fs' = [fs EXCEPT ![villager_path] = InsertSpawnMethod(fs[villager_path])]
          /\ writes' = [writes EXCEPT ![villager_path] = @ + 1]
          /\ wrote' = TRUE
          /\ out' = Append(out, <<"Fixed Villager.ts">>)
  /\ UNCHANGED <<script, idx, present, run, prev>>

(*********************** fix_spawnsystem.py: the script ********************)
FixSpawnSystem ==
  /\ script = "fix_spawnsystem"
  /\ pc = "main"
  /\ path' = spawnsystem_path
  /\ IF spawnsystem_path \notin present
     THEN /\ pc' = "crashed"
          /\ wrote' = FALSE
          /\ UNCHANGED <<orig, content, fs, writes, out>>
     ELSE /\ pc' = "done"
          /\ orig' = fs[spawnsystem_path]
          /\ content' = FixSpawnContent(fs[spawnsystem_path])
          /\ fs' = [fs EXCEPT ![spawnsystem_path] = FixSpawnContent(fs[spawnsystem_path])]
          /\ writes' = [writes EXCEPT ![spawnsystem_path] = @ + 1]
          /\ wrote' = TRUE
          /\ out' = Append(out, <<"Fixed SpawnSystem.ts">>)
  /\ UNCHANGED <<script, idx, present, run, prev>>

(***************************** running again *******************************)
\* the script is started once more on the files the finished run left
Rerun ==
  /\ pc = "done"
  /\ run < MaxRuns
  /\ run' = run + 1
  /\ prev' = fs
  /\ pc' = StartOf(script)
  /\ idx' = 1
  /\ content' = <<>>
  /\ orig' = <<>>
  /\ path' = ""
  /\ wrote' = FALSE
  /\ writes' = [p \in PathsOf(script) |-> 0]
  /\ out' = <<>>
  /\ UNCHANGED <<script, fs, present>>

Next ==
  \/ Fix1
  \/ Fix2
  \/ Fix3
  \/ Fix4
  \/ Fix5
  \/ Fix6
  \/ Fix7
  \/ EslintEnd
  \/ FixImports
  \/ ConsoleOpen
  \/ ConsoleReplace
  \/ ConsoleEnd
  \/ FixVillager
  \/ FixSpawnSystem
  \/ Rerun

Spec == Init /\ [][Next]_vars

(***************************************************************************)
(* The claims.  After a step that worked on a file, `path` names the file, *)
(* `orig` is what the step read and fs[path] what it left on disk.         *)
(***************************************************************************)

\* Fix 7 has just rewritten the file `path`
AfterFix7 == script = "fix_eslint_issues" /\ wrote /\ path \in EslintImportPaths

\* the names files_to_fix lists for the file p
UnusedOf(p) == files_to_fix[CHOOSE i \in 1..Len(files_to_fix) : files_to_fix[i][1] = p][2]

\* the first grouped import declaration of the content read, and its entries
FirstDecl == PatternSearch(orig)

DeclEntries == ImportEntries(Slice(orig, FirstDecl.gs, FirstDecl.ge))

Named(e) == \E k \in 1..Len(UnusedOf(path)) : e = <<UnusedOf(path)[k]>>

\* the entries that are none of the names, and those of them that are names at all
Remaining == SelectSeq(DeclEntries, LAMBDA e : ~Named(e))

RemainingNames == SelectSeq(Remaining, LAMBDA e : e # <<>>)

DeclCount(s) == Cardinality({i \in 1..Len(s) : PatternAt(s, i).ok})

IsSuffix(t, s) == Len(t) <= Len(s) /\ Slice(s, Len(s) - Len(t) + 1, Len(s)) = t

\* what follows the line of the first declaration in the content read
AfterFirstDeclLine ==
  LET e == Find(orig, NL, FirstDecl.to)
  IN IF e = 0 THEN <<>> ELSE Slice(orig, e + 1, Len(orig))

\* C1: running the rule chain of fix_eslint_issues a second time leaves every file
\* as the first run left it.
C1_ChainIdempotent ==
  (script = "fix_eslint_issues" /\ pc = "done" /\ run >= 2) => fs = prev

\* C2: when every member of the first grouped import is one of the names to remove,
\* the declaration is gone from the result (one grouped import less) and the text
\* before it is kept, also when it is the last line or ends with a trailing comma.
C2_TotalRemovalDeletesLine ==
  (AfterFix7 /\ FirstDecl.ok /\ RemainingNames = <<>>) =>
    /\ DeclCount(fs[path]) < DeclCount(orig)
    /\ Slice(fs[path], 1, FirstDecl.from - 1) = Slice(orig, 1, FirstDecl.from - 1)

C4_OnlyFirstImportTouched ==
  (AfterFix7 /\ FirstDecl.ok) => IsSuffix(AfterFirstDeclLine, fs[path])

\* C5: the text outside the member list of the edited declaration is kept, and
\* when none of the names is a member the content is byte-identical.
C5_RemovalIsAtomic ==
  (AfterFix7 /\ FirstDecl.ok) =>
    /\ (Remaining = DeclEntries) => fs[path] = orig
    /\ (RemainingNames # <<>>) =>
         /\ Slice(fs[path], 1, FirstDecl.gs - 1) = Slice(orig, 1, FirstDecl.gs - 1)
         /\ IsSuffix(Slice(orig, FirstDecl.ge + 1, Len(orig)), fs[path])

\* the lines at the indices of K, in their order
RECURSIVE LinesAt(_, _, _)
LinesAt(lines, K, i) ==
  IF i > Len(lines) THEN <<>>
  ELSE (IF i \in K THEN <<lines[i]>> ELSE <<>>) \o LinesAt(lines, K, i + 1)

\* a line is a later label of its key when an earlier line has the same key
LaterLabel(lines, i) ==
  /\ CaseKey(lines[i]) # <<>>
  /\ \E j \in 1..(i - 1) : CaseKey(lines[j]) = CaseKey(lines[i])

\* C6: the result of the de-duplication is the input without the second and later
\* label lines of each key; every other line is kept as it is, in its place.
C6_DedupDropsLaterLabels ==
  (script = "fix_eslint_issues" /\ wrote /\ path = responsive_path) =>
    LET lines == SplitLines(orig)
    IN fs[path] = JoinLines(LinesAt(lines, {i \in 1..Len(lines) : ~LaterLabel(lines, i)}, 1))

\* C6's case: a second label line was dropped and a line after it was kept
C6_Witness ==
  /\ script = "fix_eslint_issues"
  /\ wrote
  /\ path = responsive_path
  /\ LET lines == SplitLines(orig)
     IN /\ Len(lines) = 3
        /\ LaterLabel(lines, 2)
        /\ CaseKey(lines[3]) = <<>>
        /\ fs[path] = lines[1] \o <<NL>> \o lines[3]

GuardOf(p) ==
  CASE p = types_ts_path -> Guard1
    [] p = objectpool_path -> Guard2
    [] p = dataloader_path -> Guard3
    [] p = helpers_path -> Guard6

LastReport == IF out = <<>> THEN <<>> ELSE out[Len(out)]

\* C7: a guarded insertion that finds its guard in the content leaves the content
\* as it is and reports the rule as already applied, not as applied.
C7_GuardedSkip ==
  /\ (script = "fix_eslint_issues" /\ wrote /\ path \in EslintHeaderPaths
        /\ Contains(orig, GuardOf(path))) =>
       /\ fs[path] = orig
       /\ LastReport # <<"Fixed", path>>
  /\ (script = "fix_imports" /\ pc = "done" /\ Contains(orig, PhaserImport)) =>
       /\ fs[path] = orig
       /\ LastReport = <<"Skipping (already has import)", path>>
  /\ (script = "replace_console_logs" /\ pc = "loop" /\ path \in present
        /\ Contains(orig, DebugGuard)) =>
       /\ fs[path] = orig
       /\ LastReport = <<"Skipping (already has import)", path>>

HasImportLine(c) == \E k \in 1..Len(SplitLines(c)) : IsImportLine(SplitLines(c)[k])

\* the content up to the end of its first import line (the anchor of
\* replace_console_logs), without that line's line break
UpToAnchorLine(c) ==
  LET lines == SplitLines(c)
      k == CHOOSE i \in 1..Len(lines) :
             IsImportLine(lines[i]) /\ \A j \in 1..(i - 1) : ~IsImportLine(lines[j])
  IN JoinLines(SubSeq(lines, 1, k))

\* after line 165 of replace_console_logs: the block stands after the anchor line
\* and the text around it is the text read
ConsoleBlockAfterAnchor ==
  (script = "replace_console_logs" /\ pc = "replace" /\ HasImportLine(orig)) =>
    /\ content = UpToAnchorLine(orig) \o <<NL>> \o import_statement
                   \o Slice(orig, Len(UpToAnchorLine(orig)) + 1, Len(orig))
    /\ Contains(import_statement, DebugGuard)

Occurrences(s, pat) == Cardinality({i \in 1..Len(s) : StartsAt(s, pat, i)})

\* C9: an insertion puts its block at the first occurrence of the anchor only.
C9_FirstOccurrenceOnly ==
  /\ (script = "fix_imports" /\ wrote) =>
       fs[path] = ReplaceFirst(orig, TypesImport, PhaserImport \o <<NL>> \o TypesImport)
  /\ (script = "fix_villager" /\ wrote) =>
       fs[path] = ReplaceFirst(orig, old_text, new_text)
  /\ (script = "replace_console_logs" /\ pc = "replace") =>
       Occurrences(content, import_statement) <= 1

\* C10: a file is written at most once, and only when its content has changed.
C10_WriteOnlyIfChanged ==
  /\ \A p \in DOMAIN writes : writes[p] <= 1
  /\ wrote => fs[path] # orig

\* a report of the run names the file p
Reported(p) == \E k \in 1..Len(out) : out[k][Len(out[k])] = p

\* C11: a file that cannot be read never aborts the run: the run does not stop at
\* the failing read, and at its end every readable file of the task list has been
\* processed (and so reported).
C11_BatchIsolation ==
  /\ pc # "crashed"
  /\ (pc = "done" /\ script \in {"fix_eslint_issues", "replace_console_logs"}) =>
       \A p \in present : Reported(p)

\* the (pattern, replacement) pairs files_to_update lists for the file p
ReplacementsOf(p) ==
  files_to_update[CHOOSE i \in 1..Len(files_to_update) : files_to_update[i][1] = p][2]

\* replace_console_logs has just finished its turn for the existing file `path`
AfterConsoleTurn ==
  script = "replace_console_logs" /\ pc = "loop" /\ path # "" /\ path \in present

\* C12: within one file every rule is attempted, in order, on the content the rule
\* before it produced, also after a rule that was skipped: in replace_console_logs
\* the replacements are applied to what the import rule left (the content read when
\* the guard was found), in fix_spawnsystem the second replacement is applied to the
\* result of the first whether or not the first found its anchor.
C12_EveryRuleAttempted ==
  /\ AfterConsoleTurn =>
       fs[path] = ApplyReplacements(
                    IF Contains(orig, DebugGuard) THEN orig ELSE InsertDebugImport(orig),
                    ReplacementsOf(path))
  /\ (script = "fix_spawnsystem" /\ wrote) =>
       /\ ~Contains(fs[path], old_spawn_entity)
       /\ ~Contains(fs[path], old_method)
       /\ Occurrences(fs[path], new_spawn_entity) >= Occurrences(orig, old_spawn_entity)
       /\ Occurrences(fs[path], new_method) >= Occurrences(orig, old_method)

\* a report that says the file was fixed or updated
IsAppliedReport(r) ==
  \/ r = <<"Fixed Villager.ts">>
  \/ r = <<"Fixed SpawnSystem.ts">>
  \/ (Len(r) = 2 /\ r[1] \in {"Fixed", "Fixed imports in", "Updated"})

\* C13: nothing is swallowed: a file that is passed over because it cannot be read
\* has a report of its own, and a file is reported as fixed or updated only when a
\* rule changed it (a rule skipped for its guard or for a missing anchor is not
\* reported as applied).
C13_NothingSwallowed ==
  /\ (path # "" /\ path \notin present /\ pc # "crashed") =>
       \E k \in 1..Len(out) : out[k] = <<"Skipping (not found)", path>>
  /\ (wrote /\ IsAppliedReport(LastReport)) => fs[path] # orig

\* the content up to the end of its last import line, without that line's line break
UpToLastImportLine(c) ==
  LET lines == SplitLines(c)
      k == CHOOSE i \in 1..Len(lines) :
             IsImportLine(lines[i]) /\ \A j \in (i + 1)..Len(lines) : ~IsImportLine(lines[j])
  IN JoinLines(SubSeq(lines, 1, k))

\* C14: in replace_console_logs, with the guard absent, the import statement is put
\* directly after the last import line of the file: after the insertion the content
\* is the text up to that line, a line break, the statement, and the rest as read.
C14_ImportAfterLastImportLine ==
  (script = "replace_console_logs" /\ pc = "replace" /\ HasImportLine(orig)) =>
    content = UpToLastImportLine(orig) \o <<NL>> \o import_statement
                \o Slice(orig, Len(UpToLastImportLine(orig)) + 1, Len(orig))

\* C15: the replace-based insertions of fix_villager and fix_spawnsystem are
\* idempotent: after a run the file holds no occurrence of the text a replacement
\* looks for, and a second run leaves every file as the first run left it.
C15_ReplaceInsertIdempotent ==
  /\ (script = "fix_villager" /\ wrote) => ~Contains(fs[path], old_text)
  /\ (script = "fix_spawnsystem" /\ wrote) =>
       /\ ~Contains(fs[path], old_method)
       /\ ~Contains(fs[path], old_spawn_entity)
  /\ (script \in {"fix_villager", "fix_spawnsystem"} /\ pc = "done" /\ run >= 2) => fs = prev

\* C15's case: fix_spawnsystem has run a second time on a file in which its first
\* run had inserted both the method and the test
C15_Witness ==
  /\ script = "fix_spawnsystem"
  /\ pc = "done"
  /\ run = 2
  /\ wrote
  /\ Contains(prev[spawnsystem_path], new_method)
  /\ Contains(prev[spawnsystem_path], new_spawn_entity)
  /\ \E c \in InputsOf(spawnsystem_path) :
       /\ Contains(c, old_method)
       /\ Contains(c, old_spawn_entity)
       /\ FixSpawnContent(c) = prev[spawnsystem_path]
  /\ fs = prev

\* the import statement without the two line breaks that end it
ImportText == Slice(import_statement, 1, Len(import_statement) - 2)

\* a console call listed for the file p occurs in the content c
HasListedCall(c, p) ==
  \E k \in 1..Len(ReplacementsOf(p)) : Contains(c, ReplacementsOf(p)[k][1])

\* C16: when replace_console_logs has rewritten a console call of a file, the file
\* it wrote holds the debug-logger import statement exactly once.
C16_ImportWithReplacements ==
  (script = "replace_console_logs" /\ wrote /\ HasListedCall(orig, path)) =>
    /\ ~HasListedCall(fs[path], path)
    /\ Occurrences(fs[path], ImportText) = 1

====
